---- MODULE Spec2Model ----
(***************************************************************************)
(* The circuit evaluator of 7/src/main.rs: wires with 16-bit values, each  *)
(* defined by one operation over literals and other wires, resolved on     *)
(* demand with a per-wire cache.                                           *)
(*                                                                         *)
(* A Rust string is a sequence of one-character strings, so that split     *)
(* and parse are computed and not assumed.  Option<u16> is <<>> (None) or  *)
(* <<v>> (Some(v)).  A panic ends the process: no call follows it.         *)
(***************************************************************************)
EXTENDS Integers, Sequences, FiniteSets, TLC

VARIABLES
    parts,           \* Circuit.parts: name -> Element [spec, name, value]
    builds,          \* the builds the run can still be of: overflow checks on
                     \* (TRUE: debug, test) or off (FALSE: release); a shift
                     \* by 16 or more tells them apart
    panicked,        \* a panic has unwound the process
    stack,           \* the get_value frames of the call in progress
    last,            \* history: the last call made on the circuit and its outcome
    prev,            \* history: the call before it, in brief
    tainted,         \* history: a force or a register happened on a warm cache
    override         \* history: <<[name, val]>> while a force made right after
                     \*          clear_cache is in effect, else <<>>

vars == <<parts, builds, panicked, stack, last, prev, tainted, override>>

-----------------------------------------------------------------------------
(* 16-bit arithmetic *)

Bits == 16
Modulus == 65536

RECURSIVE Pow2(_)
Pow2(n) == IF n = 0 THEN 1 ELSE 2 * Pow2(n - 1)

RECURSIVE BitAnd(_, _, _)
BitAnd(a, b, n) ==
    IF n = 0 THEN 0
    ELSE (IF a % 2 = 1 /\ b % 2 = 1 THEN 1 ELSE 0)
         + 2 * BitAnd(a \div 2, b \div 2, n - 1)

RECURSIVE BitOr(_, _, _)
BitOr(a, b, n) ==
    IF n = 0 THEN 0
    ELSE (IF a % 2 = 1 \/ b % 2 = 1 THEN 1 ELSE 0)
         + 2 * BitOr(a \div 2, b \div 2, n - 1)

RECURSIVE BitNot(_, _)
BitNot(a, n) ==
    IF n = 0 THEN 0
    ELSE (IF a % 2 = 1 THEN 0 ELSE 1) + 2 * BitNot(a \div 2, n - 1)

-----------------------------------------------------------------------------
(* Option<u16> *)

None == <<>>
Some(v) == <<v>>

-----------------------------------------------------------------------------
(* Parsing: str::split, u16::from_str and the three FromStr impls *)

Space == " "
Digits == <<"0", "1", "2", "3", "4", "5", "6", "7", "8", "9">>

IsDigit(c) == \E i \in 1..Len(Digits) : Digits[i] = c
DigitVal(c) == (CHOOSE i \in 1..Len(Digits) : Digits[i] = c) - 1

\* s.split(" "): the pieces between the separators; never an empty list.
RECURSIVE Split(_)
Split(s) ==
    IF \A i \in 1..Len(s) : s[i] # Space THEN << s >>
    ELSE LET i == CHOOSE k \in 1..Len(s) :
                     s[k] = Space /\ \A j \in 1..(k - 1) : s[j] # Space
         IN  << SubSeq(s, 1, i - 1) >> \o Split(SubSeq(s, i + 1, Len(s)))

\* The digits of s read in base 10 on top of acc; -1 for a non-digit or a
\* value that does not fit 16 bits.
RECURSIVE ParseDigits(_, _)
ParseDigits(s, acc) ==
    IF s = <<>> THEN acc
    ELSE IF ~IsDigit(s[1]) THEN -1
    ELSE LET next == acc * 10 + DigitVal(s[1])
         IN  IF next >= Modulus THEN -1 ELSE ParseDigits(Tail(s), next)

\* s.parse::<u16>(): an optional leading "+", then at least one digit.
u16_from_str(s) ==
    LET body == IF Len(s) > 1 /\ s[1] = "+" THEN Tail(s) ELSE s
        v    == IF body = <<>> THEN -1 ELSE ParseDigits(body, 0)
    IN  IF v < 0 THEN [tag |-> "Err"] ELSE [tag |-> "Ok", v |-> v]

InputNone == [tag |-> "None"]
InputValue(v) == [tag |-> "Value", v |-> v]
InputElement(e) == [tag |-> "Element", e |-> e]

\* impl FromStr for Input: never fails.
Input_from_str(s) ==
    LET n == u16_from_str(s)
    IN  IF n.tag = "Ok" THEN InputValue(n.v) ELSE InputElement(s)

W_OR == <<"O", "R">>
W_AND == <<"A", "N", "D">>
W_LSHIFT == <<"L", "S", "H", "I", "F", "T">>
W_RSHIFT == <<"R", "S", "H", "I", "F", "T">>

\* impl FromStr for Operation
Operation_from_str(s) ==
    CASE s = W_OR     -> [tag |-> "Ok", v |-> "Or"]
      [] s = W_AND    -> [tag |-> "Ok", v |-> "And"]
      [] s = W_LSHIFT -> [tag |-> "Ok", v |-> "LShift"]
      [] s = W_RSHIFT -> [tag |-> "Ok", v |-> "RShift"]
      [] OTHER        -> [tag |-> "Err"]

\* Mutant: the operand of a two-token rule is stored as the right input.
ElementSpec_from_str_not_right(s) ==
    LET ps == Split(s)
    IN  IF Len(ps) = 1 THEN
            [tag |-> "Ok",
             v |-> [left |-> Input_from_str(ps[1]), right |-> InputNone,
                    op |-> "Value"]]
        ELSE IF Len(ps) = 2 THEN
            [tag |-> "Ok",
             v |-> [left |-> InputNone, right |-> Input_from_str(ps[2]),
                    op |-> "Not"]]
        ELSE IF Len(ps) = 3 THEN
            LET o == Operation_from_str(ps[2])
            IN  IF o.tag = "Ok" THEN
                    [tag |-> "Ok",
                     v |-> [left |-> Input_from_str(ps[1]),
                            right |-> Input_from_str(ps[3]),
                            op |-> o.v]]
                ELSE [tag |-> "Panic"]
        ELSE [tag |-> "Err"]

\* impl FromStr for ElementSpec.  Ok(spec), Err(InvalidInput), or Panic: the
\* operator word is unwrapped inside from_str.
ElementSpec_from_str(s) ==
    LET ps == Split(s)
    IN  IF Len(ps) = 1 THEN
            [tag |-> "Ok",
             v |-> [left |-> Input_from_str(ps[1]), right |-> InputNone,
                    op |-> "Value"]]
        ELSE IF Len(ps) = 2 THEN
            [tag |-> "Ok",
             v |-> [left |-> Input_from_str(ps[2]), right |-> InputNone,
                    op |-> "Not"]]
        ELSE IF Len(ps) = 3 THEN
            LET o == Operation_from_str(ps[2])
            IN  IF o.tag = "Ok" THEN
                    [tag |-> "Ok",
                     v |-> [left |-> Input_from_str(ps[1]),
                            right |-> Input_from_str(ps[3]),
                            op |-> o.v]]
                ELSE [tag |-> "Panic"]
        ELSE [tag |-> "Err"]

-----------------------------------------------------------------------------
(* ElementSpec::evaluate *)

\* Mutant: the left shift is done in a wider integer.
evaluate_wide_shift(spec, left, right, checks) ==
    CASE spec.op = "Value" ->
            [status |-> "ok", v |-> left, over |-> FALSE]
      [] spec.op = "Not" ->
            [status |-> "ok", v |-> BitNot(left, Bits), over |-> FALSE]
      [] spec.op = "And" ->
            [status |-> "ok", v |-> BitAnd(left, right, Bits), over |-> FALSE]
      [] spec.op = "Or" ->
            [status |-> "ok", v |-> BitOr(left, right, Bits), over |-> FALSE]
      [] spec.op = "LShift" ->
            IF right >= Bits /\ checks
            THEN [status |-> "panic", v |-> 0, over |-> TRUE]
            ELSE [status |-> "ok",
                  v |-> left * Pow2(right % Bits),
                  over |-> right >= Bits]
      [] spec.op = "RShift" ->
            IF right >= Bits /\ checks
            THEN [status |-> "panic", v |-> 0, over |-> TRUE]
            ELSE [status |-> "ok",
                  v |-> left \div Pow2(right % Bits),
                  over |-> right >= Bits]

\* checks: the build checks arithmetic overflow.  A shift by 16 or more then
\* panics, and otherwise shifts by the amount's low four bits; over tells
\* that such a shift was evaluated.
evaluate(spec, left, right, checks) ==
    CASE spec.op = "Value" ->
            [status |-> "ok", v |-> left, over |-> FALSE]
      [] spec.op = "Not" ->
            [status |-> "ok", v |-> BitNot(left, Bits), over |-> FALSE]
      [] spec.op = "And" ->
            [status |-> "ok", v |-> BitAnd(left, right, Bits), over |-> FALSE]
      [] spec.op = "Or" ->
            [status |-> "ok", v |-> BitOr(left, right, Bits), over |-> FALSE]
      [] spec.op = "LShift" ->
            IF right >= Bits /\ checks
            THEN [status |-> "panic", v |-> 0, over |-> TRUE]
            ELSE [status |-> "ok",
                  v |-> (left * Pow2(right % Bits)) % Modulus,
                  over |-> right >= Bits]
      [] spec.op = "RShift" ->
            IF right >= Bits /\ checks
            THEN [status |-> "panic", v |-> 0, over |-> TRUE]
            ELSE [status |-> "ok",
                  v |-> left \div Pow2(right % Bits),
                  over |-> right >= Bits]

-----------------------------------------------------------------------------
(* Element and the HashMap operations the circuit uses *)

\* Mutant: the value is not stored.
Element_set_value_dropped(e, val) == e

Element_set_value(e, val) == [e EXCEPT !.value = Some(val)]

\* Mutant: the value is not cleared.
Element_clear_value_kept(e) == e

Element_clear_value(e) == [e EXCEPT !.value = None]

HashMap_insert(m, k, v) ==
    [n \in DOMAIN m \cup {k} |-> IF n = k THEN v ELSE m[n]]

\* Mutant: the entry stays in the map.
HashMap_remove_kept(m, k) == m

HashMap_remove(m, k) == [n \in DOMAIN m \ {k} |-> m[n]]

-----------------------------------------------------------------------------
(* Circuit *)

\* Circuit::new
Circuit_new == [n \in {} |-> None]

\* Mutant: registering a node empties the cache of the others.
add_element_clearing(ps, name, spec) ==
    LET parsed == ElementSpec_from_str(spec)
    IN  IF parsed.tag = "Ok" THEN
            [status |-> "ok",
             parts |-> HashMap_insert([n \in DOMAIN ps |-> Element_clear_value(ps[n])],
                           name,
                           [spec |-> parsed.v, name |-> name, value |-> None])]
        ELSE [status |-> "panic", parts |-> ps]

\* Circuit::add_element: the parse is unwrapped before the insert, so both
\* an Err and a panic inside from_str abort with the map untouched.
add_element(ps, name, spec) ==
    LET parsed == ElementSpec_from_str(spec)
    IN  IF parsed.tag = "Ok" THEN
            [status |-> "ok",
             parts |-> HashMap_insert(ps, name,
                           [spec |-> parsed.v, name |-> name, value |-> None])]
        ELSE [status |-> "panic", parts |-> ps]

\* What a get_value call leaves behind: the map, the returned value, whether
\* it returned or panicked, and, as history, the set_value lines it printed,
\* whether a name under evaluation was asked for again, and whether a shift
\* by 16 or more was evaluated.
Outcome(ps, ret, status, printed, re, over) ==
    [parts |-> ps, ret |-> ret, status |-> status, sets |-> printed,
     reentered |-> re, over |-> over]

\* Mutant: an unknown name reads as all ones.
UnknownValue_ones == Modulus - 1

\* The value of a name the map does not hold.
UnknownValue == 0

\* Mutant: a cached value is not looked at.
do_update_uncached(ps, name) ==
    IF name \in DOMAIN ps THEN [tag |-> "update"] ELSE [tag |-> "absent"]

\* Mutant: a cached 0 is taken for no value.
do_update_zero_is_empty(ps, name) ==
    IF name \in DOMAIN ps THEN
        IF ps[name].value # None /\ ps[name].value[1] # 0
        THEN [tag |-> "return", v |-> ps[name].value[1]]
        ELSE [tag |-> "update"]
    ELSE [tag |-> "absent"]

\* The match that opens get_value: a cached value is returned at once, a
\* node without one is to be evaluated, an unknown name is not.
do_update(ps, name) ==
    IF name \in DOMAIN ps THEN
        IF ps[name].value # None
        THEN [tag |-> "return", v |-> ps[name].value[1]]
        ELSE [tag |-> "update"]
    ELSE [tag |-> "absent"]

\* Circuit::resolve_input and Circuit::get_value.  busy is the list of names
\* whose get_value frames are on the call stack (history only: the code
\* keeps no such list, a name under evaluation is simply out of the map).
RECURSIVE get_value(_, _, _, _)
RECURSIVE resolve_input(_, _, _, _)
resolve_input(ps, input, busy, checks) ==
    CASE input.tag = "None"    -> Outcome(ps, 0, "ok", <<>>, FALSE, FALSE)
      [] input.tag = "Value"   -> Outcome(ps, input.v, "ok", <<>>, FALSE, FALSE)
      [] input.tag = "Element" -> get_value(ps, input.e, busy, checks)

get_value(ps, name, busy, checks) ==
    IF do_update(ps, name).tag = "absent" THEN
        Outcome(ps, UnknownValue, "ok", <<>>,
                \E i \in 1..Len(busy) : busy[i] = name, FALSE)
    ELSE IF do_update(ps, name).tag = "return" THEN
        Outcome(ps, do_update(ps, name).v, "ok", <<>>, FALSE, FALSE)
    ELSE
        LET to_update == ps[name]
            inner == Append(busy, name)
            l == resolve_input(HashMap_remove(ps, name),
                               to_update.spec.left, inner, checks)
        IN  IF l.status = "panic" THEN l
            ELSE
            LET r == resolve_input(l.parts, to_update.spec.right, inner, checks)
                printed == l.sets \o r.sets
                re == l.reentered \/ r.reentered
            IN  IF r.status = "panic" THEN
                    Outcome(r.parts, 0, "panic", printed, re,
                            l.over \/ r.over)
                ELSE
                LET ev == evaluate(to_update.spec, l.ret, r.ret, checks)
                    done == Element_set_value(to_update, ev.v)
                    over == l.over \/ r.over \/ ev.over
                IN  IF ev.status = "panic" THEN
                        Outcome(r.parts, 0, "panic", printed, re, over)
                    ELSE IF name \in DOMAIN r.parts THEN
                        \* "circular reference? something re-inserted"
                        Outcome(HashMap_insert(r.parts, name, done), 0,
                                "panic", Append(printed, <<name, ev.v>>), re,
                                over)
                    ELSE
                        Outcome(HashMap_insert(r.parts, name, done), ev.v,
                                "ok", Append(printed, <<name, ev.v>>), re,
                                over)

\* Mutant: the loop stops one node short.
clear_cache_but_one(ps) ==
    [n \in DOMAIN ps |->
        IF n = (CHOOSE m \in DOMAIN ps : TRUE) THEN ps[n]
        ELSE Element_clear_value(ps[n])]

\* Mutant: the map itself is cleared.
clear_cache_map(ps) == Circuit_new

\* Circuit::clear_cache
clear_cache(ps) == [n \in DOMAIN ps |-> Element_clear_value(ps[n])]

\* Mutant: a node that has a value keeps it.
force_value_if_empty(ps, name, val) ==
    IF name \in DOMAIN ps /\ ps[name].value = None
    THEN [ps EXCEPT ![name] = Element_set_value(@, val)]
    ELSE ps

\* Mutant: a name the map does not hold gets a node with the value.
force_value_upsert(ps, name, val) ==
    HashMap_insert(ps, name,
        IF name \in DOMAIN ps THEN Element_set_value(ps[name], val)
        ELSE [spec |-> [left |-> InputValue(val), right |-> InputNone,
                        op |-> "Value"],
              name |-> name, value |-> Some(val)])

\* Circuit::force_value
force_value(ps, name, val) ==
    IF name \in DOMAIN ps
    THEN [ps EXCEPT ![name] = Element_set_value(@, val)]
    ELSE ps

-----------------------------------------------------------------------------
(* The calls a driver makes, and their inputs *)

NameP == <<"p">>
NameQ == <<"q">>

\* The names the driver uses.  A name is unknown to the circuit until
\* add_element has been called with it.
Names == {NameP, NameQ}

W_NOT == <<"N", "O", "T">>
W_XOR == <<"X", "O", "R">>

RECURSIVE Join(_)
Join(toks) ==
    IF Len(toks) = 1 THEN toks[1]
    ELSE toks[1] \o <<Space>> \o Join(Tail(toks))

\* The rule texts add_element is called with.
WellFormed ==
    { <<t>> : t \in {<<"3">>, NameP, NameQ} }
    \cup { <<W_NOT, t>> : t \in {NameP, NameQ} }
    \cup { <<t, W_OR, <<"4">> >> : t \in {NameP, NameQ} }
Malformed ==
    { <<NameP, W_XOR, NameQ>>, <<NameP, W_AND, NameQ, NameQ>> }
RuleTexts == { Join(toks) : toks \in WellFormed \cup Malformed }

\* The values force_value is called with: 0 and MaxForced others.
MaxForced == 1
ForceVals == { 9 * k : k \in 0..MaxForced }

\* A call and its outcome.  For clear_cache, name and val are those of the
\* force_value call it directly follows, if it follows one.
Call(kind, name, rule, val, ret, status, printed, re) ==
    [kind |-> kind, name |-> name, rule |-> rule, val |-> val, ret |-> ret,
     status |-> status, sets |-> printed, reentered |-> re]

Brief(l) == [kind |-> l.kind, name |-> l.name, val |-> l.val]

Warm(ps) == \E n \in DOMAIN ps : ps[n].value # None

Init ==
    /\ parts = Circuit_new
    /\ builds = BOOLEAN
    /\ panicked = FALSE
    /\ stack = <<>>
    /\ last = Call("new", <<>>, <<>>, 0, 0, "ok", <<>>, FALSE)
    /\ prev = Brief(last)
    /\ tainted = FALSE
    /\ override = <<>>

\* circuit.add_element(name, spec)
AddElement(name, spec) ==
    /\ ~panicked /\ stack = <<>>
    /\ LET r == add_element(parts, name, spec)
       IN  /\ parts' = r.parts
           /\ panicked' = (r.status = "panic")
           /\ last' = Call("register", name, spec, 0, 0, r.status, <<>>, FALSE)
           /\ tainted' = (tainted \/ (r.status = "ok" /\ Warm(parts)))
    /\ prev' = Brief(last)
    /\ override' = <<>>
    /\ UNCHANGED <<builds, stack>>

\* circuit.get_value(name), from the call to its return or panic, in a
\* build the run can be of
GetValue(name) ==
    /\ ~panicked /\ stack = <<>>
    /\ \E checks \in builds :
       LET r == get_value(parts, name, <<>>, checks)
       IN  /\ parts' = r.parts
           /\ builds' = IF r.over THEN {checks} ELSE builds
           /\ panicked' = (r.status = "panic")
           /\ last' = Call("resolve", name, <<>>, 0, r.ret, r.status, r.sets,
                           r.reentered)
    /\ prev' = Brief(last)
    /\ UNCHANGED <<stack, tainted, override>>

\* circuit.clear_cache()
ClearCache ==
    /\ ~panicked /\ stack = <<>>
    /\ parts' = clear_cache(parts)
    /\ last' = IF last.kind = "force"
               THEN Call("clear", last.name, <<>>, last.val, 0, "ok", <<>>, FALSE)
               ELSE Call("clear", <<>>, <<>>, 0, 0, "ok", <<>>, FALSE)
    /\ prev' = Brief(last)
    /\ tainted' = FALSE
    /\ override' = <<>>
    /\ UNCHANGED <<builds, panicked, stack>>

\* circuit.force_value(name, val)
ForceValue(name, val) ==
    /\ ~panicked /\ stack = <<>>
    /\ parts' = force_value(parts, name, val)
    /\ last' = Call("force", name, <<>>, val, 0, "ok",
                    IF name \in DOMAIN parts THEN << <<name, val>> >> ELSE <<>>,
                    FALSE)
    /\ prev' = Brief(last)
    /\ tainted' = (tainted \/ name \in DOMAIN parts)
    /\ override' = IF last.kind = "clear" /\ name \in DOMAIN parts
                   THEN << [name |-> name, val |-> val] >>
                   ELSE <<>>
    /\ UNCHANGED <<builds, panicked, stack>>

Next ==
    \/ \E name \in Names, spec \in RuleTexts : AddElement(name, spec)
    \/ \E name \in Names : GetValue(name)
    \/ ClearCache
    \/ \E name \in Names, val \in ForceVals : ForceValue(name, val)

Spec == Init /\ [][Next]_vars

-----------------------------------------------------------------------------
(* A driver that registers the whole circuit first, as main and test_number
   do, and then only asks for values and clears the cache *)

NameR == <<"r">>
LoadedNames == {NameP, NameQ, NameR}

LoadedRules ==
    { Join(toks) : toks \in
        { <<t>> : t \in {<<"3">>, NameP, NameQ} }
        \cup { <<W_NOT, t>> : t \in {NameP, NameQ} }
        \cup { <<NameP, o, NameQ>> : o \in {W_AND, W_OR, W_LSHIFT, W_RSHIFT} }
        \cup { <<NameP, o, <<"1">> >> : o \in {W_LSHIFT, W_RSHIFT} } }

\* circuit.add_element(name, spec) while nothing else has been called
LoadElement(name, spec) ==
    /\ last.kind \in {"new", "register"}
    /\ AddElement(name, spec)

NextLoaded ==
    \/ \E name \in LoadedNames, spec \in LoadedRules : LoadElement(name, spec)
    \/ \E name \in LoadedNames : GetValue(name)
    \/ ClearCache

SpecLoaded == Init /\ [][NextLoaded]_vars

-----------------------------------------------------------------------------
(* get_value step by step: one frame per get_value on the call stack.  A
   frame is at the opening match ("match"), about to resolve its left or
   right input ("left", "right"), waiting for the get_value it called for
   that input ("left_wait", "right_wait"), or about to evaluate, store and
   put the node back ("finish").  entry is history: the map the frame was
   entered with. *)

Frame(name, entry) ==
    [name |-> name, pc |-> "match", to_update |-> <<>>, left |-> 0,
     right |-> 0, entry |-> entry]

Top == stack[Len(stack)]

\* The names whose evaluation is in progress below the top frame.
Busy == { stack[i].name : i \in 1..(Len(stack) - 1) }

\* The frame with the value of the input it was resolving.
Deliver(frame, v) ==
    IF frame.pc \in {"left", "left_wait"}
    THEN [frame EXCEPT !.left = v, !.pc = "right"]
    ELSE [frame EXCEPT !.right = v, !.pc = "finish"]

\* The top frame returns v: to the frame below, or to the driver.
Return(v, call) ==
    IF Len(stack) = 1 THEN
        /\ stack' = <<>>
        /\ last' = [call EXCEPT !.ret = v, !.status = "ok"]
    ELSE
        /\ stack' = Append(SubSeq(stack, 1, Len(stack) - 2),
                           Deliver(stack[Len(stack) - 1], v))
        /\ last' = call

\* The driver calls circuit.get_value(name).
Enter(name) ==
    /\ ~panicked /\ stack = <<>>
    /\ stack' = << Frame(name, parts) >>
    /\ last' = Call("resolve", name, <<>>, 0, 0, "running", <<>>, FALSE)
    /\ prev' = Brief(last)
    /\ UNCHANGED <<parts, builds, panicked, tainted, override>>

\* Lines 148-154: the match, and the removal of a node to evaluate.
Match ==
    /\ stack # <<>> /\ Top.pc = "match"
    /\ LET d == do_update(parts, Top.name)
       IN  \/ /\ d.tag = "return"
              /\ Return(d.v, last)
              /\ UNCHANGED parts
           \/ /\ d.tag = "absent"
              /\ Return(UnknownValue,
                        [last EXCEPT !.reentered = @ \/ Top.name \in Busy])
              /\ UNCHANGED parts
           \/ /\ d.tag = "update"
              /\ parts' = HashMap_remove(parts, Top.name)
              /\ stack' = [stack EXCEPT ![Len(stack)] =
                              [@ EXCEPT !.to_update = << parts[Top.name] >>,
                                        !.pc = "left"]]
              /\ UNCHANGED last
    /\ UNCHANGED <<builds, panicked, prev, tainted, override>>

\* resolve_input for the input the top frame is at.
ResolveInput(input) ==
    /\ CASE input.tag = "None" ->
              stack' = [stack EXCEPT ![Len(stack)] = Deliver(@, 0)]
         [] input.tag = "Value" ->
              stack' = [stack EXCEPT ![Len(stack)] = Deliver(@, input.v)]
         [] input.tag = "Element" ->
              stack' = Append([stack EXCEPT ![Len(stack)] =
                                  [@ EXCEPT !.pc = IF @ = "left"
                                                   THEN "left_wait"
                                                   ELSE "right_wait"]],
                              Frame(input.e, parts))
    /\ UNCHANGED <<parts, builds, panicked, last, prev, tainted, override>>

\* Line 156
ResolveLeft ==
    /\ stack # <<>> /\ Top.pc = "left"
    /\ ResolveInput(Top.to_update[1].spec.left)

\* Line 157
ResolveRight ==
    /\ stack # <<>> /\ Top.pc = "right"
    /\ ResolveInput(Top.to_update[1].spec.right)

\* Lines 155, 158-162: evaluate, set_value, insert, return.  A panic unwinds
\* every frame.
Finish ==
    /\ stack # <<>> /\ Top.pc = "finish"
    /\ \E checks \in builds :
       LET to_update == Top.to_update[1]
           ev   == evaluate(to_update.spec, Top.left, Top.right, checks)
           done == Element_set_value(to_update, ev.v)
           call == [last EXCEPT !.sets = Append(@, <<Top.name, ev.v>>)]
       IN  /\ builds' = IF ev.over THEN {checks} ELSE builds
           /\ IF ev.status = "panic" THEN
                  /\ panicked' = TRUE
                  /\ stack' = <<>>
                  /\ last' = [last EXCEPT !.status = "panic"]
                  /\ UNCHANGED parts
              ELSE IF Top.name \in DOMAIN parts THEN
                  \* "circular reference? something re-inserted"
                  /\ panicked' = TRUE
                  /\ stack' = <<>>
                  /\ last' = [call EXCEPT !.status = "panic"]
                  /\ parts' = HashMap_insert(parts, Top.name, done)
              ELSE
                  /\ parts' = HashMap_insert(parts, Top.name, done)
                  /\ Return(ev.v, call)
                  /\ UNCHANGED panicked
    /\ UNCHANGED <<prev, tainted, override>>

Step == Match \/ ResolveLeft \/ ResolveRight \/ Finish

NextRun ==
    \/ \E name \in Names, spec \in RuleTexts : AddElement(name, spec)
    \/ \E name \in Names : Enter(name)
    \/ Step
    \/ ClearCache
    \/ \E name \in Names, val \in ForceVals : ForceValue(name, val)

SpecRun == Init /\ [][NextRun]_vars

\* get_value runs on once called: nothing in it waits for anything.
SpecRunFair == SpecRun /\ WF_vars(Step)

-----------------------------------------------------------------------------
(* What the properties speak of *)

\* The circuit a driver gets by registering the same rules anew.
Fresh(ps) ==
    [n \in DOMAIN ps |-> [spec |-> ps[n].spec, name |-> n, value |-> None]]

\* The names a spec refers to, and the registered ones among them.
Refs(spec) ==
    { i.e : i \in { j \in {spec.left, spec.right} : j.tag = "Element" } }
Deps(ps, n) == Refs(ps[n].spec) \cap DOMAIN ps

RECURSIVE Reach(_, _, _)
Reach(ps, from, k) ==
    IF k = 0 THEN from
    ELSE Reach(ps, from \cup UNION { Deps(ps, n) : n \in from }, k - 1)

\* No registered node depends on itself.
Acyclic(ps) ==
    \A n \in DOMAIN ps :
        n \notin Reach(ps, Deps(ps, n), Cardinality(DOMAIN ps))

Passthrough(ps, n, m) ==
    /\ n \in DOMAIN ps
    /\ ps[n].spec = [left |-> InputElement(m), right |-> InputNone,
                     op |-> "Value"]

Returned(kind) == last.kind = kind /\ last.status = "ok"

-----------------------------------------------------------------------------
(* Properties of the calls, under Spec *)

\* C1: a get_value call that asks again for a name whose evaluation is in
\* progress fails fatally: it panics instead of returning; and when p is a
\* bare reference to q and q a bare reference to p, no value is left cached
\* for p or q.
C1_CycleIsFatal ==
    (last.kind = "resolve" /\ last.reentered) =>
        /\ last.status = "panic"
        /\ (Passthrough(parts, NameP, NameQ) /\ Passthrough(parts, NameQ, NameP))
               => (parts[NameP].value = None /\ parts[NameQ].value = None)

\* C4: a get_value call made right after a get_value call of the same name
\* that returned returns the same value, prints no set_value line and
\* leaves the circuit as it was.
C4_ResolveIdempotent ==
    [][ (Returned("resolve") /\ last'.kind = "resolve"
             /\ last'.name = last.name)
        => (/\ last'.status = "ok"
            /\ last'.ret = last.ret
            /\ last'.sets = <<>>
            /\ parts' = parts) ]_vars

C4_Witness ==
    /\ Returned("resolve")
    /\ prev.kind = "resolve" /\ prev.name = last.name
    /\ last.name \in DOMAIN parts
    /\ Refs(parts[last.name].spec) # {}
    /\ last.ret # 0

\* C5: a get_value call made right after clear_cache ends as the same call
\* does on a freshly registered circuit with the same specs, and returns
\* the same value.
C5_ClearThenResolveIsFresh ==
    [][ (last.kind = "clear" /\ last'.kind = "resolve")
        => \A checks \in builds' :
              LET fresh == get_value(Fresh(parts), last'.name, <<>>, checks)
              IN  /\ last'.status = fresh.status
                  /\ last'.ret = fresh.ret ]_vars

C5_Witness ==
    /\ Returned("resolve")
    /\ prev.kind = "clear" /\ prev.name # <<>>
    /\ Len(last.sets) = 2
    /\ last.ret # 0

\* C6: a get_value call made right after force_value(name, v) on a
\* registered name returns v and evaluates nothing, whatever the spec and
\* whether or not a value was cached before.
C6_ForceThenResolve ==
    [][ (last.kind = "force" /\ last.name \in DOMAIN parts
             /\ last'.kind = "resolve" /\ last'.name = last.name)
        => (/\ last'.status = "ok"
            /\ last'.ret = last.val
            /\ last'.sets = <<>>) ]_vars

C6_Witness ==
    /\ Returned("resolve")
    /\ prev.kind = "force" /\ prev.name = last.name
    /\ last.name \in DOMAIN parts
    /\ last.ret = prev.val
    /\ \A checks \in builds :
          get_value(Fresh(parts), last.name, <<>>, checks).ret # prev.val

\* C7: after force_value(name, v) and then clear_cache, the node has no
\* cached value, and a get_value call made next ends as on a freshly
\* registered circuit with the same specs, with the same value.
C7_ForceDoesNotSurviveClear ==
    [][ (last.kind = "clear" /\ last.name \in DOMAIN parts)
        => (/\ parts[last.name].value = None
            /\ (last'.kind = "resolve" /\ last'.name = last.name)
                  => \A checks \in builds' :
                        LET fresh == get_value(Fresh(parts), last.name, <<>>,
                                               checks)
                        IN  /\ last'.status = fresh.status
                            /\ last'.ret = fresh.ret) ]_vars

C7_Witness ==
    /\ Returned("resolve")
    /\ prev.kind = "clear" /\ prev.name = last.name
    /\ last.name \in DOMAIN parts
    /\ last.ret # prev.val
    /\ last.sets # <<>>

\* The circuit with n's definition replaced by the literal v, freshly
\* registered.
Overridden(ps, n, v) ==
    Fresh(HashMap_insert(ps, n,
        [spec |-> [left |-> InputValue(v), right |-> InputNone, op |-> "Value"],
         name |-> n, value |-> None]))

\* C8: on an acyclic circuit, while a force_value(n, v) made right after
\* clear_cache is in effect, every get_value(t) that returns returns the
\* value t has in the circuit with n's definition replaced by the literal v.
C8_OverrideActsAsLiteral ==
    (Returned("resolve") /\ override # <<>> /\ Acyclic(parts)) =>
        \A checks \in builds :
            last.ret = get_value(Overridden(parts, override[1].name,
                                            override[1].val),
                                 last.name, <<>>, checks).ret

C8_Witness ==
    /\ Returned("resolve") /\ override # <<>> /\ Acyclic(parts)
    /\ prev.kind = "resolve"
    /\ last.name \in DOMAIN parts
    /\ override[1].name \in Deps(parts, last.name)
    /\ last.ret # override[1].val
    /\ \A checks \in builds :
          last.ret # get_value(Fresh(parts), last.name, <<>>, checks).ret

\* C9: get_value of a name the circuit does not hold returns 0 and leaves
\* the circuit as it was; and a node that is a bare reference to such a name
\* resolves to 0, in a call that returns.
C9_UnknownIsZero ==
    [][ /\ (last'.kind = "resolve" /\ last'.name \notin DOMAIN parts)
            => (/\ last'.status = "ok"
                /\ last'.ret = 0
                /\ last'.sets = <<>>
                /\ parts' = parts)
        /\ (/\ last'.kind = "resolve"
            /\ last'.name \in DOMAIN parts
            /\ parts[last'.name].value = None
            /\ parts[last'.name].spec.op = "Value"
            /\ parts[last'.name].spec.left.tag = "Element"
            /\ parts[last'.name].spec.left.e \notin DOMAIN parts)
            => (/\ last'.status = "ok"
                /\ last'.ret = 0
                /\ DOMAIN parts' = DOMAIN parts) ]_vars

C9_Witness ==
    /\ Returned("resolve")
    /\ prev.kind = "resolve" /\ prev.name \notin DOMAIN parts
    /\ Passthrough(parts, last.name, prev.name)
    /\ last.sets = << <<last.name, 0>> >>

\* C10: add_element with a malformed rule (a token count other than 1, 2, 3,
\* or an unknown operator word among 3 tokens) hands InvalidInput back to
\* its caller, without a panic, and leaves the circuit as it was.
C10_MalformedIsRecoverable ==
    [][ (last'.kind = "register" /\ ElementSpec_from_str(last'.rule).tag # "Ok")
        => (last'.status = "err" /\ ~panicked' /\ parts' = parts) ]_vars

-----------------------------------------------------------------------------
(* Properties of evaluation, under SpecLoaded *)

\* The reference evaluator: the value of a node is its operation applied
\* to the values of its operands.  fuel bounds the descent; it is never
\* used up on an acyclic circuit.  A product or quotient by 2^right with
\* right >= 16 is 0 for a 16-bit left, and is written so.
RECURSIVE RefVal(_, _, _)
RefOperand(ps, input, fuel) ==
    CASE input.tag = "None"    -> 0
      [] input.tag = "Value"   -> input.v
      [] input.tag = "Element" -> RefVal(ps, input.e, fuel)

RefVal(ps, n, fuel) ==
    IF fuel = 0 \/ n \notin DOMAIN ps THEN 0
    ELSE LET sp == ps[n].spec
             l  == RefOperand(ps, sp.left, fuel - 1)
             r  == RefOperand(ps, sp.right, fuel - 1)
         IN  CASE sp.op = "Value"  -> l
               [] sp.op = "Not"    -> 65535 - l
               [] sp.op = "And"    -> BitAnd(l, r, 16)
               [] sp.op = "Or"     -> BitOr(l, r, 16)
               [] sp.op = "LShift" ->
                     IF r >= 16 THEN 0 ELSE (l * Pow2(r)) % 65536
               [] sp.op = "RShift" ->
                     IF r >= 16 THEN 0 ELSE l \div Pow2(r)

Ref(ps, n) == RefVal(ps, n, Cardinality(DOMAIN ps) + 1)

RefsRegistered(ps) == \A n \in DOMAIN ps : Refs(ps[n].spec) \subseteq DOMAIN ps

ShiftsBelow16(ps) ==
    \A n \in DOMAIN ps :
        ps[n].spec.op \in {"LShift", "RShift"}
            => RefOperand(ps, ps[n].spec.right, Cardinality(DOMAIN ps)) < 16

WellBuilt(ps) == Acyclic(ps) /\ RefsRegistered(ps) /\ ShiftsBelow16(ps)

CacheAgrees(cached, ps) ==
    \A n \in DOMAIN cached :
        cached[n].value # None => cached[n].value[1] = Ref(ps, n)

\* C2: on a circuit that is acyclic, refers only to registered names and
\* shifts by less than 16, with no force and no register since the cache
\* was last empty, every cached value is the reference value of its node,
\* and every get_value call returns, with the reference value of the name
\* asked for.
C2_ResolveMatchesReference ==
    [][ (WellBuilt(parts) /\ ~tainted /\ ~panicked)
        => (/\ CacheAgrees(parts, parts)
            /\ last'.kind = "resolve"
                  => (/\ last'.status = "ok"
                      /\ last'.ret = Ref(parts, last'.name)
                      /\ DOMAIN parts' = DOMAIN parts
                      /\ CacheAgrees(parts', parts))) ]_vars

C2_Witness ==
    /\ Returned("resolve") /\ WellBuilt(parts) /\ ~tainted
    /\ prev.kind = "clear"
    /\ last.name = NameR /\ NameR \in DOMAIN parts
    /\ parts[NameR].spec.op = "LShift"
    /\ Deps(parts, NameR) = {NameP, NameQ}
    /\ Deps(parts, NameP) = {NameQ}
    /\ parts[NameP].spec.op = "Not"
    /\ Len(last.sets) = 3
    /\ last.ret > 32768

-----------------------------------------------------------------------------
(* Properties of a call in progress, under SpecRun and SpecRunFair *)

\* The step-by-step get_value and the operator get_value agree: a frame
\* that returns leaves the map, and returns the value, that get_value
\* computes from the map the frame was entered with.
ReturnsAsGetValue ==
    [][ (stack # <<>> /\ Len(stack') < Len(stack) /\ ~panicked')
        => \E checks \in builds' :
              LET r == get_value(Top.entry, Top.name, <<>>, checks)
              IN  /\ r.status = "ok"
                  /\ parts' = r.parts
                  /\ IF stack' = <<>>
                     THEN last'.ret = r.ret
                     ELSE \/ stack'[Len(stack')].left = r.ret
                          \/ stack'[Len(stack')].right = r.ret ]_vars


\* The names taken out of the map by the frames on the stack.
CheckedOut ==
    { stack[i].name : i \in { j \in 1..Len(stack) : stack[j].to_update # <<>> } }

\* C3: a get_value call, once made, ends: it returns or it panics; and the
\* get_value frames on the stack never number more than the registered
\* nodes plus one.
C3_ResolveTerminates ==
    /\ [](Len(stack) <= Cardinality(DOMAIN parts \cup CheckedOut) + 1)
    /\ (stack # <<>>) ~> (stack = <<>> /\ last.status \in {"ok", "panic"})

C3_Witness ==
    /\ Len(stack) = 3
    /\ Cardinality(DOMAIN parts \cup CheckedOut) = 2
    /\ stack[3].name = stack[1].name
    /\ stack[2].name # stack[1].name

\* C18: when a get_value frame is about to put its node back, the map holds
\* no entry under the node's name, on cyclic circuits as on others: the
\* "circular reference? something re-inserted" panic does not happen.  The
\* rules of this driver have no shift, so that panic is the only one
\* get_value could end in.
C18_ReinsertionGuardNeverFires ==
    /\ (stack # <<>> /\ Top.pc = "finish") => Top.name \notin DOMAIN parts
    /\ last.kind = "resolve" => last.status # "panic"

\* Reached on a cycle: the frame about to put its node back has asked,
\* through the other node, for its own name.
C18_Witness ==
    /\ Len(stack) = 1 /\ Top.pc = "finish"
    /\ last.reentered
    /\ DOMAIN parts = Names \ {Top.name}
    /\ ~Acyclic(HashMap_insert(parts, Top.name, Top.to_update[1]))
    /\ \A n \in DOMAIN parts :
          Top.name \in Deps(HashMap_insert(parts, Top.name, Top.to_update[1]), n)
             /\ parts[n].value # None

-----------------------------------------------------------------------------
(* Shifts by 16 or more, under SpecLoaded *)

\* The value get_value(n) resolves for the right input of n, after its left
\* input, on the map ps; -1 if resolving an input panics.
RightOperand(ps, n, checks) ==
    LET l == resolve_input(HashMap_remove(ps, n), ps[n].spec.left, <<n>>,
                           checks)
    IN  IF l.status = "panic" THEN -1
        ELSE LET r == resolve_input(l.parts, ps[n].spec.right, <<n>>, checks)
             IN  IF r.status = "panic" THEN -1 ELSE r.ret

\* C11: a get_value call that evaluates a shift node whose right input
\* resolves to 16 or more returns, and returns 0, whatever the left input:
\* it neither panics nor shifts by the amount modulo 16.
C11_ShiftSaturates ==
    [][ \A checks \in builds' :
          (/\ last'.kind = "resolve"
           /\ last'.name \in DOMAIN parts
           /\ parts[last'.name].value = None
           /\ parts[last'.name].spec.op \in {"LShift", "RShift"}
           /\ RightOperand(parts, last'.name, checks) >= Bits)
          => (last'.status = "ok" /\ last'.ret = 0) ]_vars

-----------------------------------------------------------------------------
(* What each call changes and what it leaves alone, under Spec *)

\* C12: force_value raises no error, leaves the set of names and every
\* node's spec as they were, and changes no cached value but that of the
\* node it names; on a name the circuit does not hold it changes nothing.
C12_ForceFrame ==
    [][ last'.kind = "force"
        => (/\ last'.status = "ok" /\ ~panicked'
            /\ DOMAIN parts' = DOMAIN parts
            /\ \A n \in DOMAIN parts :
                  /\ parts'[n].spec = parts[n].spec
                  /\ parts'[n].name = parts[n].name
                  /\ parts'[n].value = IF n = last'.name
                                       THEN Some(last'.val)
                                       ELSE parts[n].value) ]_vars

C12_Witness ==
    /\ last.kind = "force" /\ last.name \notin DOMAIN parts
    /\ prev.kind = "force" /\ prev.name \in DOMAIN parts
    /\ prev.val # 0 /\ last.val # prev.val
    /\ parts[prev.name].value = Some(prev.val)
    /\ parts[prev.name].spec.op = "Not"

\* C13: a get_value call evaluates no node twice; the nodes it evaluates had
\* no cached value and have the evaluated one afterwards; and a cached value
\* is left as it is.  So from one clear_cache to the next a node is
\* evaluated, and its value written by get_value, at most once.
C13_AtMostOncePerPass ==
    [][ last'.kind = "resolve"
        => (/\ \A i, j \in 1..Len(last'.sets) :
                  last'.sets[i][1] = last'.sets[j][1] => i = j
            /\ \A i \in 1..Len(last'.sets) :
                  LET n == last'.sets[i][1]
                  IN  /\ n \in DOMAIN parts /\ parts[n].value = None
                      /\ n \in DOMAIN parts'
                      /\ parts'[n].value = Some(last'.sets[i][2])
            /\ \A n \in DOMAIN parts :
                  parts[n].value # None
                      => (n \in DOMAIN parts' /\ parts'[n].value = parts[n].value))
      ]_vars

C13_Witness ==
    /\ Returned("resolve") /\ ~tainted
    /\ prev.kind = "resolve" /\ prev.name # last.name
    /\ last.name \in DOMAIN parts
    /\ prev.name \in Deps(parts, last.name)
    /\ parts[prev.name].value # None
    /\ Len(last.sets) = 1 /\ last.sets[1][1] = last.name

\* C15: after clear_cache no node has a cached value, whether it was
\* evaluated, forced or had none; the circuit holds the same names, and
\* every node its spec.
C15_ClearEmptiesAll ==
    [][ last'.kind = "clear"
        => (/\ last'.status = "ok" /\ ~panicked'
            /\ DOMAIN parts' = DOMAIN parts
            /\ \A n \in DOMAIN parts :
                  /\ parts'[n].value = None
                  /\ parts'[n].spec = parts[n].spec
                  /\ parts'[n].name = parts[n].name) ]_vars

\* Reached from a circuit of two nodes, one of them forced just before.
C15_Witness ==
    /\ last.kind = "clear" /\ last.name \in DOMAIN parts /\ last.val # 0
    /\ DOMAIN parts = Names
    /\ \A n \in Names : parts[n].value = None
    /\ \E n \in Names : Deps(parts, n) # {}

\* C16: add_element with a well-formed rule leaves, under the name, a node
\* with the spec parsed from the rule and no cached value, whatever was
\* there before; every other node keeps its spec and its cached value,
\* nodes that refer to the name included.
C16_RegisterFrame ==
    [][ (last'.kind = "register" /\ ElementSpec_from_str(last'.rule).tag = "Ok")
        => (/\ last'.status = "ok" /\ ~panicked'
            /\ DOMAIN parts' = DOMAIN parts \cup {last'.name}
            /\ parts'[last'.name].spec = ElementSpec_from_str(last'.rule).v
            /\ parts'[last'.name].name = last'.name
            /\ parts'[last'.name].value = None
            /\ \A n \in DOMAIN parts \ {last'.name} : parts'[n] = parts[n])
      ]_vars

\* Reached by registering anew a node with a forced value that a cached
\* node refers to.
C16_Witness ==
    /\ Returned("register")
    /\ prev.kind = "force" /\ prev.name = last.name
    /\ DOMAIN parts = Names
    /\ parts[last.name].value = None
    /\ \E n \in Names \ {last.name} :
          /\ last.name \in Deps(parts, n)
          /\ parts[n].value # None

-----------------------------------------------------------------------------
(* The shape of the specs, under SpecLoaded *)

\* The operands a spec has are those its operation takes.
ArityOk(spec) ==
    /\ spec.op \in {"Value", "Not", "And", "Or", "LShift", "RShift"}
    /\ spec.left.tag # "None"
    /\ spec.right.tag = "None" <=> spec.op \in {"Value", "Not"}
    /\ spec.right.tag # "None" <=> spec.op \in {"And", "Or", "LShift", "RShift"}

\* The operation of a spec is the one the number of tokens of the rule, and
\* the middle one of three, say; and its operands come from the tokens.
TokensAs(rule, spec) ==
    LET toks == Split(rule)
    IN  CASE Len(toks) = 1 ->
                 /\ spec.op = "Value"
                 /\ spec.left = Input_from_str(toks[1])
          [] Len(toks) = 2 ->
                 /\ spec.op = "Not"
                 /\ spec.left = Input_from_str(toks[2])
          [] Len(toks) = 3 ->
                 /\ \/ toks[2] = W_AND /\ spec.op = "And"
                    \/ toks[2] = W_OR /\ spec.op = "Or"
                    \/ toks[2] = W_LSHIFT /\ spec.op = "LShift"
                    \/ toks[2] = W_RSHIFT /\ spec.op = "RShift"
                 /\ spec.left = Input_from_str(toks[1])
                 /\ spec.right = Input_from_str(toks[3])
          [] OTHER -> FALSE

\* C17: every spec the circuit holds has a left input; it has no right input
\* exactly when its operation is Value or Not, and has one exactly when it is
\* And, Or, LShift or RShift; and the spec a rule was just registered with
\* has the operation and the operands of the rule's tokens.
C17_ArityInvariant ==
    /\ \A n \in DOMAIN parts : ArityOk(parts[n].spec)
    /\ Returned("register")
          => (/\ last.name \in DOMAIN parts
              /\ TokensAs(last.rule, parts[last.name].spec))

C17_Witness ==
    /\ Returned("register")
    /\ DOMAIN parts = LoadedNames
    /\ { parts[n].spec.op : n \in LoadedNames } = {"Value", "Not", "RShift"}
    /\ parts[last.name].spec.op = "RShift"
    /\ parts[last.name].spec.right.tag = "Value"

-----------------------------------------------------------------------------
(* The checkout of the node under evaluation, under SpecRun *)

\* C14: while a get_value frame is evaluating a node, the map holds no entry
\* under the node's name; and when the get_value call the driver made
\* returns, the map holds the names it held when the call was made, every
\* node has the spec it had, and every value cached then is still cached:
\* only nodes without a value can have changed, by getting one.
C14_CheckoutDiscipline ==
    /\ [](\A n \in CheckedOut : n \notin DOMAIN parts)
    /\ [][ (stack # <<>> /\ stack' = <<>> /\ ~panicked')
           => LET before == stack[1].entry
              IN  /\ DOMAIN parts' = DOMAIN before
                  /\ \A n \in DOMAIN before :
                        /\ parts'[n].spec = before[n].spec
                        /\ parts'[n].name = before[n].name
                        /\ before[n].value # None
                              => parts'[n].value = before[n].value ]_vars

C14_Witness ==
    /\ Len(stack) = 2 /\ Top.pc = "finish"
    /\ CheckedOut = Names /\ DOMAIN parts = {}
    /\ last.reentered
    /\ stack[1].entry[stack[1].name].value = None
    /\ stack[1].entry[Top.name].value = None

====
